---- MODULE Spec2Model ----
(***************************************************************************)
(* journal-preview.js: the journal preview pipeline of lanifield.nz.       *)
(*                                                                         *)
(* One page load is modelled: the script boots, issues its request over    *)
(* fetch or XMLHttpRequest, and the callbacks of the chosen transport      *)
(* validate the payload and either render cards or show an error.          *)
(*                                                                         *)
(* A JavaScript string is a sequence of one-character strings.  A literal  *)
(* of the script that holds none of the characters & < > " ' and is never  *)
(* split or compared is kept as one element (e.g. <<"undefined">>).        *)
(***************************************************************************)
EXTENDS Integers, Sequences, FiniteSets, TLC

(* ---------------------------- bounds ----------------------------------- *)

\* Longest entries array drawn from DatedPool and from LenientPool.
MaxEntries == 4

\* Longest entries array drawn from the whole EntryPool.
MaxMixed == 2

\* Longest string handed to escapeHtml on its own.
MaxStrLen == 3

\* Most calls of showError in a row.
MaxCalls == 3

(* ------------------------- program constants --------------------------- *)

MAX_CARDS == 3

\* The value of a property that is missing from an object.
undefined == <<"#undefined">>

\* NaN, as returned by parseInt and carried by an invalid Date: a value no
\* parsed number and no month index takes.
NaN == -1000000

\* The map without its entry for the apostrophe.
MutMap == [c \in {"&", "<", ">", "\""} |->
          CASE c = "&"  -> <<"&", "a", "m", "p", ";">>
            [] c = "<"  -> <<"&", "l", "t", ";">>
            [] c = ">"  -> <<"&", "g", "t", ";">>
            [] c = "\"" -> <<"&", "q", "u", "o", "t", ";">>]

\* The characters escapeHtml replaces, with their entities.
map == [c \in {"&", "<", ">", "\"", "'"} |->
          CASE c = "&"  -> <<"&", "a", "m", "p", ";">>
            [] c = "<"  -> <<"&", "l", "t", ";">>
            [] c = ">"  -> <<"&", "g", "t", ";">>
            [] c = "\"" -> <<"&", "q", "u", "o", "t", ";">>
            [] c = "'"  -> <<"&", "#", "3", "9", ";">>]

months == <<"Jan", "Feb", "Mar", "Apr", "May", "Jun",
            "Jul", "Aug", "Sep", "Oct", "Nov", "Dec">>

NoEntriesMsg    == <<"No journal entries found yet.">>
CouldNotLoadMsg == <<"Could not load journal entries at this time.">>
CouldNotReadMsg == <<"Could not read journal data.">>

(* ----------------------------- strings --------------------------------- *)

\* String(v): the string conversion escapeHtml applies to its argument.
String(v) == IF v = undefined THEN <<"undefined">> ELSE v

Digits == <<"0", "1", "2", "3", "4", "5", "6", "7", "8", "9">>

IsDigit(c) == \E i \in 1..10 : Digits[i] = c

DigitVal(c) == (CHOOSE i \in 1..10 : Digits[i] = c) - 1

\* The characters of the date strings, in code-unit order.
CodeUnits == <<" ", "\"", "&", "'", "-", "0", "1", "2", "3", "4", "5", "6",
               "7", "8", "9", "<", ">", "a", "b">>

Code(c) == CHOOSE i \in 1..Len(CodeUnits) : CodeUnits[i] = c

RECURSIVE StrLess(_, _)
\* s < t on two JavaScript strings: lexicographic on code units.
StrLess(s, t) ==
  IF t = <<>> THEN FALSE
  ELSE IF s = <<>> THEN TRUE
  ELSE IF Head(s) = Head(t) THEN StrLess(Tail(s), Tail(t))
  ELSE Code(Head(s)) < Code(Head(t))

\* a < b in JavaScript when each side is a string or undefined: a comparison
\* with undefined converts to NaN and is false.
Less(a, b) == a # undefined /\ b # undefined /\ StrLess(a, b)

RECURSIVE Concat(_)
\* Array.prototype.join(''): the concatenation of a sequence of strings.
Concat(ss) == IF ss = <<>> THEN <<>> ELSE Head(ss) \o Concat(Tail(ss))

RECURSIVE NumToStr(_)
\* Number-to-string conversion of a non-negative integer.
NumToStr(n) ==
  IF n < 10 THEN <<Digits[n + 1]>>
  ELSE NumToStr(n \div 10) \o <<Digits[(n % 10) + 1]>>

(* ---------------------------- escapeHtml ------------------------------- *)

EscapeChar(c) == IF c \in DOMAIN map THEN map[c] ELSE <<c>>

escapeHtml(str) ==
  Concat([i \in 1..Len(String(str)) |-> EscapeChar(String(str)[i])])

(* ---------------------------- formatDate ------------------------------- *)

RECURSIVE Split(_)
\* iso.split('-')
Split(s) ==
  IF \A i \in 1..Len(s) : s[i] # "-" THEN <<s>>
  ELSE LET k == CHOOSE i \in 1..Len(s) :
                  s[i] = "-" /\ \A j \in 1..(i - 1) : s[j] # "-"
       IN <<SubSeq(s, 1, k - 1)>> \o Split(SubSeq(s, k + 1, Len(s)))

RECURSIVE DigitPrefix(_, _)
DigitPrefix(s, acc) ==
  IF s = <<>> \/ ~IsDigit(Head(s)) THEN acc
  ELSE DigitPrefix(Tail(s), 10 * acc + DigitVal(Head(s)))

RECURSIVE TrimStart(_)
TrimStart(s) == IF s # <<>> /\ Head(s) = " " THEN TrimStart(Tail(s)) ELSE s

\* parseInt(s, 10) on a string without sign characters: leading white space
\* is skipped, the longest digit prefix is read, NaN when it is empty.
parseInt(s) ==
  LET t == TrimStart(s)
  IN IF t = <<>> \/ ~IsDigit(Head(t)) THEN NaN ELSE DigitPrefix(t, 0)

IsLeap(y) == (y % 4 = 0 /\ y % 100 # 0) \/ y % 400 = 0

DaysInMonth(y, m) ==
  IF m = 1 THEN (IF IsLeap(y) THEN 29 ELSE 28)
  ELSE IF m \in {3, 5, 8, 10} THEN 30 ELSE 31

\* Largest year whose every day is a valid time value (8.64e15 ms).
MaxDateYear == 275759

RECURSIVE MakeDay(_, _, _)
\* Carries a day number outside its month into the neighbouring months;
\* m is a month index 0..11.
MakeDay(y, m, d) ==
  IF d < 1
    THEN LET pm == IF m = 0 THEN 11 ELSE m - 1
             py == IF m = 0 THEN y - 1 ELSE y
         IN MakeDay(py, pm, d + DaysInMonth(py, pm))
  ELSE IF d > DaysInMonth(y, m)
    THEN MakeDay(IF m = 11 THEN y + 1 ELSE y, IF m = 11 THEN 0 ELSE m + 1,
                 d - DaysInMonth(y, m))
  ELSE [year |-> y, month |-> m, date |-> d, valid |-> y <= MaxDateYear]

InvalidDate == [year |-> 0, month |-> 0, date |-> 0, valid |-> FALSE]

\* new Date(year, monthIndex, day): a NaN argument gives an invalid Date,
\* years 0..99 mean 1900..1999, month and day overflow is carried.
Date(year, monthIndex, day) ==
  IF year = NaN \/ monthIndex = NaN \/ day = NaN THEN InvalidDate
  ELSE LET y0 == IF year <= 99 THEN 1900 + year ELSE year
           y  == y0 + ((monthIndex - (monthIndex % 12)) \div 12)
       IN IF y > MaxDateYear + 1 THEN InvalidDate
          ELSE MakeDay(y, monthIndex % 12, day)

\* d.getDate() + ' ' + months[d.getMonth()] + ' ' + d.getFullYear()
ManualFormat(d) ==
  NumToStr(d.date) \o <<" ", months[d.month + 1], " ">> \o NumToStr(d.year)

\* Intl.DateTimeFormat('en-NZ', {day: 'numeric', month: 'short',
\* year: 'numeric'}).format(d)
IntlFormat(d) ==
  NumToStr(d.date) \o <<" ", months[d.month + 1], " ">> \o NumToStr(d.year)

\* a - b on numbers: NaN stays NaN.
Minus(a, b) == IF a = NaN THEN NaN ELSE a - b

\* formatDate(iso) for a string iso; intl tells whether Intl exists (the
\* ReferenceError of a missing Intl is caught and the month table is used).
formatDate(iso, intl) ==
  LET parts == Split(iso)
  IN IF Len(parts) < 3 THEN iso
     ELSE LET d == Date(parseInt(parts[1]), Minus(parseInt(parts[2]), 1),
                        parseInt(parts[3]))
          IN IF ~d.valid THEN iso
             ELSE IF intl THEN IntlFormat(d) ELSE ManualFormat(d)

(* ----------------------------- buildCard ------------------------------- *)

\* An entry of the payload is an object (a record of string-or-undefined
\* properties) or null.
null == [isNull |-> TRUE]

\* entry.date is read: null has no properties, and formatDate calls
\* iso.split, which undefined does not have.
BuildCardThrows(entry) == entry = null \/ entry.date = undefined

\* The <li class="card"> markup of one entry: the fixed template with the
\* string placed in each of its holes ("" where the read-time span is left
\* out).
buildCard(entry, intl) ==
  [tag       |-> "li.card",
   category  |-> escapeHtml(entry.category),
   href      |-> escapeHtml(entry.url),
   title     |-> escapeHtml(entry.title),
   excerpt   |-> escapeHtml(entry.excerpt),
   datetime  |-> escapeHtml(entry.date),
   dateText  |-> formatDate(entry.date, intl),
   hasReadTime |-> (entry.readTime # undefined /\ entry.readTime # <<>>),
   readTime  |-> IF entry.readTime # undefined /\ entry.readTime # <<>>
                   THEN escapeHtml(entry.readTime) ELSE <<>>]

(* ------------------------------ inputs --------------------------------- *)

Str1(c) == <<c>>

Jan(day) == <<"2", "0", "2", "5", "-", "0", "1", "-", "0", day>>

\* An entry with every property of the expected journal.json shape.
Entry(date, title, text, readTime) ==
  [date |-> date, title |-> title, excerpt |-> text, category |-> text,
   readTime |-> readTime, url |-> text]

Hostile == <<"<", "a", ">", "&", "\"", "'">>

\* The entries the payloads are built from: two entries of one date told
\* apart by their titles, a later one, one whose date has no '-', one whose
\* date has three parts that are not numbers, one with markup characters in
\* every text property, one without a date, one without a title, and null.
EntryPool ==
  { Entry(Jan("1"), Str1("a"), Str1("a"), undefined),
    Entry(Jan("1"), Str1("b"), Str1("a"), undefined),
    Entry(Jan("2"), Str1("a"), Str1("a"), <<"5">>),
    Entry(<<"<", "b", ">">>, Str1("a"), Str1("a"), undefined),
    Entry(<<"a", "-", "\"", "-", "'">>, Str1("a"), Str1("a"), <<>>),
    Entry(Jan("3"), Hostile, Hostile, Hostile),
    Entry(undefined, Str1("a"), Str1("a"), undefined),
    Entry(Jan("2"), undefined, Str1("a"), undefined),
    null }

\* Five valid entries dated 2025-01-01 .. 2025-01-05, oldest first, titled
\* by their day.
FiveEntries ==
  [i \in 1..5 |-> Entry(Jan(Digits[i + 1]), Str1(Digits[i + 1]), Str1("a"),
                        undefined)]

RECURSIVE SeqsUpTo(_, _)
SeqsUpTo(S, n) ==
  IF n = 0 THEN {<<>>}
  ELSE LET shorter == SeqsUpTo(S, n - 1)
       IN shorter \cup {Append(q, e) : q \in shorter, e \in S}

\* Entries with well-formed dates, for the selection step.
DatedPool ==
  { Entry(Jan("1"), Str1("a"), Str1("a"), undefined),
    Entry(Jan("1"), Str1("b"), Str1("a"), undefined),
    Entry(Jan("2"), Str1("a"), Str1("a"), <<"5">>),
    Entry(Jan("3"), Hostile, Hostile, Hostile) }

\* Entries with and without a date.
LenientPool ==
  { Entry(Jan("1"), Str1("a"), Str1("a"), undefined),
    Entry(Jan("2"), Str1("a"), Str1("a"), <<"5">>),
    Entry(undefined, Str1("a"), Str1("a"), undefined) }

Arrays ==
  SeqsUpTo(DatedPool, MaxEntries) \cup SeqsUpTo(LenientPool, MaxEntries)
    \cup SeqsUpTo(EntryPool, MaxMixed) \cup {FiveEntries}

\* The value of data.entries: missing, present but no array, or an array.
NoEntriesKey  == [kind |-> "missing", items |-> <<>>]
EntriesString == [kind |-> "string", items |-> <<>>]
EntriesArray(items) == [kind |-> "array", items |-> items]

\* Decoded JSON values: null, 0, a non-zero number, a non-empty
\* string, an object without an entries
\* key, an object whose entries is a string, an object with an entries array.
\* A primitive has no entries property.
JsonValues ==
  { [type |-> "null",   truthy |-> FALSE, entries |-> NoEntriesKey],
    [type |-> "number", truthy |-> FALSE, entries |-> NoEntriesKey],
    [type |-> "number", truthy |-> TRUE,  entries |-> NoEntriesKey],
    [type |-> "string", truthy |-> TRUE,  entries |-> NoEntriesKey],
    [type |-> "object", truthy |-> TRUE,  entries |-> NoEntriesKey],
    [type |-> "object", truthy |-> TRUE,  entries |-> EntriesString] }
  \cup { [type |-> "object", truthy |-> TRUE, entries |-> EntriesArray(a)] :
           a \in Arrays }

\* No decoded value (the body is no JSON text, or nothing was decoded yet).
NoData == [type |-> "none", truthy |-> FALSE, entries |-> NoEntriesKey]

\* Response bodies: a JSON text, given by the value it decodes to, or a text
\* that is no JSON.
Bodies == JsonValues \cup {NoData}

IsJson(body) == body # NoData

Statuses == {199, 200, 299, 300, 404}

\* Bodies that come with a status outside 200..299.
ErrorBodies ==
  { NoData,
    [type |-> "object", truthy |-> TRUE, entries |-> EntriesArray(FiveEntries)] }

Responses ==
  { [status |-> 200, body |-> b] : b \in Bodies }
  \cup { [status |-> st, body |-> b] : st \in Statuses \ {200}, b \in ErrorBodies }

NoResponse == [status |-> 0, body |-> NoData]

(* ------------------------------ state ---------------------------------- *)

VARIABLES
  hasFetch,   \* typeof fetch === 'function'
  hasIntl,    \* Intl.DateTimeFormat exists
  grid,       \* #journal-preview-grid: present, children
  fallback,   \* #journal-preview-fallback: present, style.display, innerHTML
  pc,         \* the callback that runs next
  response,   \* the response the transport delivered
  data,       \* the decoded payload held by the page
  latest,     \* renderCards' selection
  calls,      \* the calls made so far, in order
  path,       \* the pipeline states entered so far
  fnArg,      \* the argument of a function applied on its own
  fnResult,   \* its return value
  navPage,    \* nav.js: the elements the page has, and whether the script ran
  navDom,     \* nav.js: the attributes, classes and styles the script writes
  mqMatches,  \* nav.js: whether (min-width: 800px) matches
  navEvent,   \* nav.js: the event dispatched last
  consentCfg, \* cookie-consent.js: CLARITY_ID, the settings button, storage mode
  stored,     \* cookie-consent.js: the value under 'lrf_cookie_consent'
  consentPc,  \* cookie-consent.js: whether init has run
  banners,    \* cookie-consent.js: the banner of init and that of the settings button
  announced,  \* cookie-consent.js: the text of #sr-announcement
  clarity     \* cookie-consent.js: the #ms-clarity script element

\* What the journal preview reads and writes.
journalVars == <<grid, fallback, pc, response, data, latest, calls, path>>

\* A function applied on its own: escapeHtml, formatDate.
fnVars == <<fnArg, fnResult>>

\* What nav.js reads and writes.
navVars == <<navPage, navDom, mqMatches, navEvent>>

\* What cookie-consent.js reads and writes.
consentVars == <<consentCfg, stored, consentPc, banners, announced, clarity>>

vars == <<hasFetch, hasIntl, journalVars, fnVars, navVars, consentVars>>

\* What no callback of the journal preview writes.
env == <<hasFetch, hasIntl, fnVars, navVars, consentVars>>

\* No function is being applied on its own.
NotCalled == <<"#none">>

FnIdle == fnArg = <<>> /\ fnResult = NotCalled

\* No event was dispatched yet. An event is recorded with its name and with
\* whether aria-expanded was 'true' when it was dispatched.
NoEvent == [name |-> "none", wasOpen |-> FALSE]

\* A page without nav.js.
NavOff ==
  /\ navPage = [toggle |-> FALSE, nav |-> FALSE, toggleInNav |-> FALSE,
                firstLink |-> FALSE, links |-> FALSE,
                mqApi |-> "addEventListener", pc |-> "off"]
  /\ navDom = [ariaExpanded |-> "false", ariaLabel |-> "Open navigation menu",
               isOpen |-> FALSE, overflow |-> "", focus |-> "body"]
  /\ mqMatches = FALSE
  /\ navEvent = NoEvent

\* A banner that was not created: its place (none, pending: created and waiting
\* for the timer, dom: appended to the body, removed), whether it has the
\* class is-visible, whether an animation frame is still to add the class, and
\* whether a transitionend listener is attached.
NoBanner == [stage |-> "none", visible |-> FALSE, frame |-> FALSE, hiding |-> FALSE]

\* A page without cookie-consent.js.
ConsentOff ==
  /\ consentCfg = [clarityId |-> "", settingsBtn |-> FALSE, storage |-> "ok"]
  /\ stored = "null"
  /\ consentPc = "off"
  /\ banners = [init |-> NoBanner, settings |-> NoBanner, focus |-> "page"]
  /\ announced = ""
  /\ clarity = [injected |-> FALSE, storedThen |-> "null"]

\* A child the page's static markup put into the grid.
StaticItem == [tag |-> "li.static"]

\* The placeholder's static content.
StaticFallback == [p |-> <<"static fallback">>, href |-> ""]

Call(fn, arg) == [fn |-> fn, arg |-> arg]

Init ==
  /\ hasFetch \in BOOLEAN
  /\ hasIntl \in BOOLEAN
  /\ grid \in { [present |-> p, children |-> c] :
                  p \in BOOLEAN, c \in {<<>>, <<StaticItem>>} }
  /\ fallback \in { [present |-> p, display |-> "", innerHTML |-> StaticFallback] :
                      p \in BOOLEAN }
  /\ pc = "start"
  /\ response = NoResponse
  /\ data = NoData
  /\ latest = <<>>
  /\ calls = <<>>
  /\ path = <<"Idle">>
  /\ FnIdle /\ NavOff /\ ConsentOff

\* The journal preview is not running (a page without the script).
JournalOff ==
  /\ grid = [present |-> FALSE, children |-> <<>>]
  /\ fallback = [present |-> FALSE, display |-> "", innerHTML |-> StaticFallback]
  /\ pc = "off"
  /\ response = NoResponse
  /\ data = NoData
  /\ latest = <<>>
  /\ calls = <<>>
  /\ path = <<>>

(* ----------------------------- renderCards ----------------------------- *)

\* compare with its two tests swapped: oldest first.
MutCompare(a, b) ==
  IF Less(a.date, b.date) THEN -1 ELSE IF Less(b.date, a.date) THEN 1 ELSE 0

\* The comparator handed to sort.
compare(a, b) ==
  IF Less(b.date, a.date) THEN -1 ELSE IF Less(a.date, b.date) THEN 1 ELSE 0

RECURSIVE Insert(_, _)
Insert(sorted, e) ==
  IF sorted = <<>> THEN <<e>>
  ELSE IF compare(Head(sorted), e) > 0 THEN <<e>> \o sorted
  ELSE <<Head(sorted)>> \o Insert(Tail(sorted), e)

RECURSIVE StableSort(_)
\* Array.prototype.sort with a consistent comparator: the stable sort.
StableSort(entries) ==
  IF entries = <<>> THEN <<>>
  ELSE Insert(StableSort(SubSeq(entries, 1, Len(entries) - 1)),
              entries[Len(entries)])

\* The comparator is consistent on the array: being equal under it is
\* transitive (an entry without a date compares equal to every entry).
Consistent(entries) ==
  \A i, j, k \in 1..Len(entries) :
    compare(entries[i], entries[j]) = 0 /\ compare(entries[j], entries[k]) = 0
      => compare(entries[i], entries[k]) = 0

Reorderings(entries) ==
  { [i \in 1..Len(entries) |-> entries[f[i]]] :
      f \in { g \in [1..Len(entries) -> 1..Len(entries)] :
                \A i, j \in 1..Len(entries) : i # j => g[i] # g[j] } }

\* The comparator reads a.date and b.date: sort throws when it is called on
\* null, and it is called once the array has two elements.
SortThrows(entries) ==
  Len(entries) >= 2 /\ \E i \in 1..Len(entries) : entries[i] = null

\* entries.slice().sort(compare): with an inconsistent comparator the order
\* is implementation-defined.
SortOutcomes(entries) ==
  IF Len(entries) < 2 THEN {entries}
  ELSE IF Consistent(entries) THEN {StableSort(entries)} ELSE Reorderings(entries)

\* slice with an end index one too far.
MutSlice(sorted) ==
  SubSeq(sorted, 1,
         IF Len(sorted) < MAX_CARDS + 1 THEN Len(sorted) ELSE MAX_CARDS + 1)

\* sorted.slice(0, MAX_CARDS)
Slice(sorted) ==
  SubSeq(sorted, 1, IF Len(sorted) < MAX_CARDS THEN Len(sorted) ELSE MAX_CARDS)

\* The placeholder after fallback.style.display = 'none'.
Hide(fb) == IF fb.present THEN [fb EXCEPT !.display = "none"] ELSE fb

\* The runs of renderCards(entries): what it selected, whether it reached
\* the hiding of the placeholder, the cards it inserted, whether it threw.
renderCards(entries, intl) ==
  IF SortThrows(entries)
    THEN { [threw |-> TRUE, hid |-> FALSE, latest |-> <<>>, html |-> <<>>] }
  ELSE { LET l == Slice(sorted)
         IN IF \E i \in 1..Len(l) : BuildCardThrows(l[i])
              THEN [threw |-> TRUE, hid |-> TRUE, latest |-> l, html |-> <<>>]
              ELSE [threw |-> FALSE, hid |-> TRUE, latest |-> l,
                    html |-> [i \in 1..Len(l) |-> buildCard(l[i], intl)]]
         : sorted \in SortOutcomes(entries) }

(* ------------------------------ showError ------------------------------ *)

\* showError appending to the placeholder's content (innerHTML +=).
MutShowError(fb, message) ==
  IF fb.present
    THEN [fb EXCEPT !.innerHTML = [p |-> fb.innerHTML.p \o escapeHtml(message),
                                   href |-> "journal.html"]]
    ELSE fb

\* The placeholder after showError(message).
showError(fb, message) ==
  IF fb.present
    THEN [fb EXCEPT !.innerHTML = [p |-> escapeHtml(message),
                                   href |-> "journal.html"]]
    ELSE fb

(* ------------------------- showError on its own ------------------------ *)

\* Messages handed to showError: the script's three, and one with markup.
ErrorMessages ==
  {NoEntriesMsg, CouldNotLoadMsg, CouldNotReadMsg, <<"<", "a", "&">>}

InitShowError ==
  /\ hasFetch = TRUE /\ hasIntl = TRUE
  /\ FnIdle /\ NavOff /\ ConsentOff
  /\ grid \in { [present |-> TRUE, children |-> c] :
                  c \in {<<>>, <<StaticItem>>, <<StaticItem, StaticItem>>} }
  /\ fallback \in { [present |-> p, display |-> d, innerHTML |-> StaticFallback] :
                      p \in BOOLEAN, d \in {"", "none"} }
  /\ pc = "showError"
  /\ response = NoResponse
  /\ data = NoData
  /\ latest = <<>>
  /\ calls = <<>>
  /\ path = <<>>

\* showError(message) is called.
CallShowError ==
  /\ pc = "showError"
  /\ Len(calls) < MaxCalls
  /\ \E message \in ErrorMessages :
       /\ fallback' = showError(fallback, message)
       /\ calls' = Append(calls, Call("showError", message))
  /\ UNCHANGED <<env, grid, pc, response, data, latest, path>>

NextShowError == CallShowError

SpecShowError == InitShowError /\ [][NextShowError]_vars

(* ------------------------ formatDate on its own ------------------------ *)

TwoDigits == { <<Digits[a + 1], Digits[b + 1]>> : a \in 0..3, b \in 0..9 }

\* YYYY-MM-DD strings, of real dates and of days and months that do not
\* exist, in years before and after 1000 and in a leap year.
IsoStrings ==
  { y \o <<"-">> \o m \o <<"-">> \o d :
      y \in { <<"0", "0", "5", "0">>, <<"0", "9", "9", "9">>,
              <<"2", "0", "2", "4">>, <<"2", "0", "2", "5">> },
      m \in { mm \in TwoDigits : parseInt(mm) \in 0..13 },
      d \in { dd \in TwoDigits : parseInt(dd) \in {0, 1, 9, 15, 28, 29, 30, 31, 32} } }

\* Strings that are no dates.
OtherStrings ==
  { <<"n", "o", "t", "-", "a", "-", "d", "a", "t", "e">>,
    <<"2", "0", "2", "5">>,
    <<"2", "0", "2", "5", "-", "0", "2">>,
    <<"2", "0", "2", "5", "-", "0", "2", "-">>,
    <<"2", "0", "2", "5", "-", "x", "-", "1", "5">>,
    <<"-", "2", "-", "1", "5">>,
    <<"<", "b", ">">>,
    <<>> }

InitFormat ==
  /\ hasFetch = TRUE
  /\ hasIntl \in BOOLEAN
  /\ JournalOff /\ NavOff /\ ConsentOff
  /\ fnArg \in IsoStrings \cup OtherStrings
  /\ fnResult = NotCalled

\* formatDate(iso) is called.
CallFormatDate ==
  /\ fnResult = NotCalled
  /\ fnResult' = formatDate(fnArg, hasIntl)
  /\ UNCHANGED <<hasFetch, hasIntl, journalVars, fnArg, navVars, consentVars>>

NextFormat == CallFormatDate

SpecFormat == InitFormat /\ [][NextFormat]_vars

(* ------------------------ escapeHtml on its own ------------------------ *)

EscapeAlphabet == {"a", "&", "<", ">", "\"", "'", ";", "#"}

InitEscape ==
  /\ hasFetch = TRUE /\ hasIntl = TRUE
  /\ JournalOff /\ NavOff /\ ConsentOff
  /\ fnArg \in SeqsUpTo(EscapeAlphabet, MaxStrLen)
  /\ fnResult = NotCalled

\* escapeHtml is called on the argument.
CallEscapeHtml ==
  /\ fnResult = NotCalled
  /\ fnResult' = escapeHtml(fnArg)
  /\ UNCHANGED <<hasFetch, hasIntl, journalVars, fnArg, navVars, consentVars>>

NextEscape == CallEscapeHtml

SpecEscape == InitEscape /\ [][NextEscape]_vars

(* ------------------------------ loadJournal ---------------------------- *)

\* The status test with an inclusive upper end.
MutOk(status) == status >= 200 /\ status <= 300

\* response.ok, and xhr.status >= 200 && xhr.status < 300
Ok(status) == status >= 200 /\ status < 300

\* The validation without its test for an empty array.
MutInvalid(d) == ~d.truthy \/ d.entries.kind # "array"

\* !data || !Array.isArray(data.entries) || data.entries.length === 0
Invalid(d) ==
  ~d.truthy \/ d.entries.kind # "array" \/ Len(d.entries.items) = 0

\* The script without its guard on the grid: loadJournal always runs.
MutBoot ==
  /\ pc = "start"
  /\ IF hasFetch
       THEN /\ pc' = "fetchPending"
            /\ calls' = Append(calls, Call("fetch", <<>>))
            /\ path' = Append(path, "Fetching")
       ELSE /\ pc' = "xhrPending"
            /\ calls' = Append(calls, Call("xhr.send", <<>>))
            /\ path' = Append(path, "Fetching")
  /\ UNCHANGED <<env, grid, fallback, response, data, latest>>

\* The script runs: without the grid it returns; with it, loadJournal issues
\* the request over fetch when fetch is a function, else over XMLHttpRequest.
Boot ==
  /\ pc = "start"
  /\ IF ~grid.present
       THEN /\ pc' = "inert"
            /\ UNCHANGED <<calls, path>>
     ELSE IF hasFetch
       THEN /\ pc' = "fetchPending"
            /\ calls' = Append(calls, Call("fetch", <<>>))
            /\ path' = Append(path, "Fetching")
       ELSE /\ pc' = "xhrPending"
            /\ calls' = Append(calls, Call("xhr.send", <<>>))
            /\ path' = Append(path, "Fetching")
  /\ UNCHANGED <<env, grid, fallback, response, data, latest>>

\* The promise of fetch fulfils with a response.
FetchResolve ==
  /\ pc = "fetchPending"
  /\ \E r \in Responses : response' = r
  /\ pc' = "then1"
  /\ UNCHANGED <<env, grid, fallback, data, latest, calls, path>>

\* The promise of fetch rejects: both then callbacks are skipped.
FetchReject ==
  /\ pc = "fetchPending"
  /\ pc' = "catch"
  /\ UNCHANGED <<env, grid, fallback, response, data, latest, calls, path>>

\* The first then callback: throws on a response that is not ok, else
\* returns the promise of response.json().
Then1 ==
  /\ pc = "then1"
  /\ IF ~Ok(response.status)
       THEN pc' = "catch" /\ path' = path
       ELSE pc' = "json" /\ path' = Append(path, "Decoding")
  /\ UNCHANGED <<env, grid, fallback, response, data, latest, calls>>

\* The promise of response.json() settles: fulfilled with the decoded value,
\* or rejected when the body is no JSON.
JsonSettle ==
  /\ pc = "json"
  /\ IF IsJson(response.body)
       THEN pc' = "then2" /\ data' = response.body
       ELSE pc' = "catch" /\ data' = data
  /\ UNCHANGED <<env, grid, fallback, response, latest, calls, path>>

\* The second then callback: validation, then showError or renderCards; an
\* exception of renderCards rejects the promise the catch callback hangs on.
Then2 ==
  /\ pc = "then2"
  /\ IF Invalid(data)
       THEN /\ fallback' = showError(fallback, NoEntriesMsg)
            /\ calls' = Append(calls, Call("showError", NoEntriesMsg))
            /\ path' = Append(path, "Failed")
            /\ pc' = "settled"
            /\ UNCHANGED <<grid, latest>>
       ELSE \E r \in renderCards(data.entries.items, hasIntl) :
              /\ latest' = r.latest
              /\ fallback' = IF r.hid THEN Hide(fallback) ELSE fallback
              /\ grid' = [grid EXCEPT !.children = @ \o r.html]
              /\ calls' = calls \o <<Call("renderCards", <<>>)>> \o
                            (IF r.threw THEN <<>>
                             ELSE <<Call("insertAdjacentHTML", <<>>)>>)
              /\ path' = path \o <<"Rendering">> \o
                            (IF r.threw THEN <<>> ELSE <<"Done">>)
              /\ pc' = IF r.threw THEN "catch" ELSE "settled"
  /\ UNCHANGED <<env, response, data>>

\* A catch callback that reports every failure as missing entries.
MutCatchNoEntries ==
  /\ pc = "catch"
  /\ fallback' = showError(fallback, NoEntriesMsg)
  /\ calls' = Append(calls, Call("showError", NoEntriesMsg))
  /\ path' = Append(path, "Failed")
  /\ pc' = "settled"
  /\ UNCHANGED <<env, grid, response, data, latest>>

\* A catch callback that falls back to XMLHttpRequest when fetch failed.
MutCatchRetry ==
  /\ pc = "catch"
  /\ calls' = Append(calls, Call("xhr.send", <<>>))
  /\ pc' = "xhrPending"
  /\ UNCHANGED <<env, grid, fallback, response, data, latest, path>>

\* The catch callback.
Catch ==
  /\ pc = "catch"
  /\ fallback' = showError(fallback, CouldNotLoadMsg)
  /\ calls' = Append(calls, Call("showError", CouldNotLoadMsg))
  /\ path' = Append(path, "Failed")
  /\ pc' = "settled"
  /\ UNCHANGED <<env, grid, response, data, latest>>

\* xhr.onload: the whole handler, with its try/catch around JSON.parse,
\* the validation and renderCards.
XhrOnload ==
  /\ pc = "xhrPending"
  /\ \E r \in Responses :
       /\ response' = r
       /\ IF ~Ok(r.status)
            THEN /\ fallback' = showError(fallback, CouldNotLoadMsg)
                 /\ calls' = Append(calls, Call("showError", CouldNotLoadMsg))
                 /\ path' = Append(path, "Failed")
                 /\ UNCHANGED <<grid, data, latest>>
          ELSE IF ~IsJson(r.body)
            THEN /\ fallback' = showError(fallback, CouldNotReadMsg)
                 /\ calls' = Append(calls, Call("showError", CouldNotReadMsg))
                 /\ path' = path \o <<"Decoding", "Failed">>
                 /\ UNCHANGED <<grid, data, latest>>
          ELSE IF Invalid(r.body)
            THEN /\ data' = r.body
                 /\ fallback' = showError(fallback, NoEntriesMsg)
                 /\ calls' = Append(calls, Call("showError", NoEntriesMsg))
                 /\ path' = path \o <<"Decoding", "Failed">>
                 /\ UNCHANGED <<grid, latest>>
          ELSE \E rc \in renderCards(r.body.entries.items, hasIntl) :
                 /\ data' = r.body
                 /\ latest' = rc.latest
                 /\ grid' = [grid EXCEPT !.children = @ \o rc.html]
                 /\ fallback' =
                      IF rc.threw
                        THEN showError(IF rc.hid THEN Hide(fallback) ELSE fallback,
                                       CouldNotReadMsg)
                        ELSE Hide(fallback)
                 /\ calls' = calls \o <<Call("renderCards", <<>>)>> \o
                      (IF rc.threw THEN <<Call("showError", CouldNotReadMsg)>>
                       ELSE <<Call("insertAdjacentHTML", <<>>)>>)
                 /\ path' = path \o <<"Decoding", "Rendering">> \o
                      (IF rc.threw THEN <<"Failed">> ELSE <<"Done">>)
  /\ pc' = "settled"
  /\ UNCHANGED env

\* xhr.onerror
XhrOnerror ==
  /\ pc = "xhrPending"
  /\ fallback' = showError(fallback, CouldNotLoadMsg)
  /\ calls' = Append(calls, Call("showError", CouldNotLoadMsg))
  /\ path' = Append(path, "Failed")
  /\ pc' = "settled"
  /\ UNCHANGED <<env, grid, response, data, latest>>

Next ==
  \/ Boot
  \/ FetchResolve
  \/ FetchReject
  \/ Then1
  \/ JsonSettle
  \/ Then2
  \/ Catch
  \/ XhrOnload
  \/ XhrOnerror

Spec == Init /\ [][Next]_vars

(* ------------------------- observation helpers ------------------------- *)

Count(fn) == Cardinality({i \in 1..Len(calls) : calls[i].fn = fn})

Called(fn) == Count(fn) > 0

\* The messages handed to showError, in order.
Messages ==
  LET errs == SelectSeq(calls, LAMBDA c : c.fn = "showError")
  IN [i \in 1..Len(errs) |-> errs[i].arg]

IsCard(child) == child.tag = "li.card"

\* The cards among the grid's children, in order.
Cards == SelectSeq(grid.children, IsCard)

Pending == pc \in {"fetchPending", "xhrPending"}

Settled == pc = "settled"

Last(q) == q[Len(q)]

\* The claims' own words for the outcomes of the transport.
In2xx(status) == status \in 200..299

\* A non-null object whose entries key holds a non-empty array.
HasEntries(v) ==
  v.type = "object" /\ v.entries.kind = "array" /\ Len(v.entries.items) >= 1

\* The transport outcome the page observed, once it has one.
NetworkError  == Settled /\ response = NoResponse
StatusError   == response # NoResponse /\ ~In2xx(response.status)
Malformed     == response # NoResponse /\ In2xx(response.status)
                   /\ ~IsJson(response.body)
InvalidShape  == response # NoResponse /\ In2xx(response.status)
                   /\ IsJson(response.body) /\ ~HasEntries(response.body)
ValidShape    == response # NoResponse /\ In2xx(response.status)
                   /\ IsJson(response.body) /\ HasEntries(response.body)

\* The entries array the transport delivered.
Items == response.body.entries.items

\* Every entry is an object whose date is a string.
AllDated(entries) ==
  \A i \in 1..Len(entries) : entries[i] # null /\ entries[i].date # undefined

Min(a, b) == IF a < b THEN a ELSE b

\* q[j] = entries[idx[j]] for distinct positions idx[j] of entries.
DrawnFrom(q, entries) ==
  \E idx \in [1..Len(q) -> 1..Len(entries)] :
    /\ \A j \in 1..Len(q) : q[j] = entries[idx[j]]
    /\ \A j, k \in 1..Len(q) : j # k => idx[j] # idx[k]

\* As DrawnFrom, and entries of one date keep their input order.
DrawnStably(q, entries) ==
  \E idx \in [1..Len(q) -> 1..Len(entries)] :
    /\ \A j \in 1..Len(q) : q[j] = entries[idx[j]]
    /\ \A j, k \in 1..Len(q) : j # k => idx[j] # idx[k]
    /\ \A j, k \in 1..Len(q) :
         (j < k /\ q[j].date = q[k].date) => idx[j] < idx[k]

\* Newest first under string comparison.
Descending(q) ==
  \A j, k \in 1..Len(q) : j < k => ~StrLess(q[j].date, q[k].date)

RawMarkup == {"<", ">", "\"", "'"}

NoRaw(str) == \A i \in 1..Len(str) : str[i] \notin RawMarkup

(* ------------------------------- claims -------------------------------- *)

\* C1: in a page load at most one of renderCards and showError runs: once
\* renderCards has started (placeholder hidden or cards built) showError is
\* not called, and neither runs before the transport's completion has been
\* observed.
C1_OnlyOnePathRuns ==
  /\ (fallback.display = "none" \/ Len(Cards) > 0) => ~Called("showError")
  /\ ~(Called("renderCards") /\ Called("showError"))
  /\ (Called("renderCards") \/ Called("showError")) => pc \notin {"start", "fetchPending", "xhrPending"}

\* C2: in every terminal state the user sees at least one rendered card, or
\* the still-visible placeholder holding an error message and the link to
\* journal.html; the placeholder is never hidden with no card appended.
C2_CardsOrVisibleError ==
  (Settled /\ fallback.present) =>
    /\ \/ Len(Cards) >= 1
       \/ /\ fallback.display # "none"
          /\ fallback.innerHTML.href = "journal.html"
          /\ fallback.innerHTML.p \in {NoEntriesMsg, CouldNotLoadMsg, CouldNotReadMsg}
    /\ ~(fallback.display = "none" /\ Len(Cards) = 0)

\* C3: every data-derived string in a card's markup is escaped, the visible
\* date included: no entry field puts a raw < > " or ' into the markup.
C3_CardMarkupEscaped ==
  \A i \in 1..Len(Cards) :
    /\ NoRaw(Cards[i].category)
    /\ NoRaw(Cards[i].href)
    /\ NoRaw(Cards[i].title)
    /\ NoRaw(Cards[i].excerpt)
    /\ NoRaw(Cards[i].readTime)
    /\ NoRaw(Cards[i].datetime)
    /\ NoRaw(Cards[i].dateText)

\* C10: the pipeline's states follow Idle -> Fetching -> {Decoding ->
\* {Rendering -> Done} | Failed} | Failed: Failed is entered only from
\* Fetching or Decoding, Done and Failed are terminal.
C10_StateMachine ==
  \E allowed \in { <<"Idle", "Fetching", "Decoding", "Rendering", "Done">>,
                   <<"Idle", "Fetching", "Decoding", "Failed">>,
                   <<"Idle", "Fetching", "Failed">> } :
    /\ Len(path) <= Len(allowed)
    /\ path = SubSeq(allowed, 1, Len(path))

\* C4 as stated: for a non-2xx status, a network error, malformed JSON and
\* an invalid shape, under fetch and under XMLHttpRequest, showError gets
\* the "no entries found yet" message for the invalid shape and the "could
\* not load entries" message for every other kind.
C4_TwoMessages ==
  (Settled /\ (NetworkError \/ StatusError \/ Malformed \/ InvalidShape)) =>
    Messages = <<IF InvalidShape THEN NoEntriesMsg ELSE CouldNotLoadMsg>>

\* C4 amended: showError gets one of three messages.  An invalid shape gives
\* "No journal entries found yet." and a non-2xx status or a network error
\* gives "Could not load journal entries at this time." under either
\* transport; malformed JSON, and an exception thrown while rendering, gives
\* "Could not load journal entries at this time." under fetch and "Could not
\* read journal data." under XMLHttpRequest.
C4_ThreeMessages ==
  Settled =>
    /\ (NetworkError \/ StatusError) => Messages = <<CouldNotLoadMsg>>
    /\ InvalidShape => Messages = <<NoEntriesMsg>>
    /\ Malformed =>
         Messages = <<IF hasFetch THEN CouldNotLoadMsg ELSE CouldNotReadMsg>>
    /\ ValidShape =>
         \/ Messages = <<>> /\ Last(path) = "Done"
         \/ /\ Messages = <<IF hasFetch THEN CouldNotLoadMsg ELSE CouldNotReadMsg>>
            /\ ~Called("insertAdjacentHTML")

C4_Witness ==
  Settled /\ ~hasFetch /\ Malformed /\ Messages = <<CouldNotReadMsg>>

\* C5: for a non-empty array of entries with string dates, the selection of
\* renderCards has length min(3, input length), is ordered by date
\* descending under string comparison, keeps entries of equal date in input
\* order, holds only input entries, none twice, and the input is unmodified.
C5_Selection ==
  (Called("renderCards") /\ AllDated(Items)) =>
    /\ Len(latest) = Min(3, Len(Items))
    /\ Descending(latest)
    /\ DrawnStably(latest, Items)
    /\ data = response.body

C5_Witness ==
  /\ Called("renderCards") /\ AllDated(Items)
  /\ Len(Items) = 4 /\ Len(latest) = 3
  /\ StrLess(Items[1].date, Items[4].date)
  /\ latest[2].date = latest[3].date /\ latest[2] # latest[3]

\* C6 (state part): on the success path the grid got min(3, number of
\* entries) cards in one insertion after its former children, card j built
\* from the j-th selected entry, no entry rendered twice, newest first; the
\* five entries dated 2025-01-01 .. 2025-01-05 give the cards of 01-05, 01-04
\* and 01-03.
C6_Inserted ==
  /\ Len(Cards) > 0 => Last(path) = "Done"
  /\ Last(path) = "Done" =>
       /\ Count("renderCards") = 1 /\ Count("insertAdjacentHTML") = 1
       /\ Len(Cards) = Min(3, Len(Items))
       /\ \A i, j \in 1..Len(grid.children) :
            (i < j /\ IsCard(grid.children[i])) => IsCard(grid.children[j])
       /\ \A j \in 1..Len(Cards) :
            /\ Cards[j].title = escapeHtml(latest[j].title)
            /\ Cards[j].datetime = escapeHtml(latest[j].date)
            /\ Cards[j].href = escapeHtml(latest[j].url)
       /\ DrawnFrom(latest, Items)
       /\ AllDated(Items) =>
            /\ Descending(latest)
            /\ \A i \in 1..Len(Items) :
                 (\E j \in 1..Len(latest) : StrLess(latest[j].date, Items[i].date))
                   => \E j \in 1..Len(latest) : latest[j] = Items[i]
       /\ Items = FiveEntries =>
            [j \in 1..Len(Cards) |-> Cards[j].datetime] = <<Jan("5"), Jan("4"), Jan("3")>>

\* C6 (step part): a step keeps the children the grid has, and cards are
\* inserted in one step only.
C6_ChildrenKept ==
  /\ Len(grid'.children) >= Len(grid.children)
  /\ \A i \in 1..Len(grid.children) : grid'.children[i] = grid.children[i]
  /\ Len(grid.children) > 0 /\ IsCard(Last(grid.children)) => grid' = grid

C7_InvalidShapeReported ==
  InvalidShape =>
    /\ fallback.display # "none"
    /\ Cards = <<>>
    /\ ~Called("renderCards")
    /\ \A i \in 1..Len(Messages) : Messages[i] = NoEntriesMsg
    /\ Settled =>
         /\ Messages = <<NoEntriesMsg>>
         /\ Last(path) = "Failed"
         /\ fallback.present =>
              fallback.innerHTML = [p |-> NoEntriesMsg, href |-> "journal.html"]

C7_Witness ==
  /\ Settled /\ InvalidShape /\ hasFetch /\ fallback.present
  /\ response.body.entries = EntriesArray(<<>>)
  /\ fallback.innerHTML.p = NoEntriesMsg

\* C8: when the transport fails (a status outside 200..299, or a network
\* error), under either transport, the pipeline fails with the generic
\* "could not load" message, the placeholder is not hidden and the container
\* gains no children.
C8_TransportFailureReported ==
  (StatusError \/ NetworkError) =>
    /\ fallback.display # "none"
    /\ Cards = <<>>
    /\ ~Called("renderCards")
    /\ \A i \in 1..Len(Messages) : Messages[i] = CouldNotLoadMsg
    /\ Settled =>
         /\ Messages = <<CouldNotLoadMsg>>
         /\ Last(path) = "Failed"
         /\ fallback.present =>
              fallback.innerHTML = [p |-> CouldNotLoadMsg, href |-> "journal.html"]

C8_Witness ==
  /\ Settled /\ StatusError /\ response.status = 300
  /\ HasEntries(response.body) /\ fallback.present
  /\ Messages = <<CouldNotLoadMsg>>

\* C9 (state part): once the script has run with the grid present, one
\* request has been issued, over fetch exactly when fetch exists.
C9_OneRequest ==
  /\ Count("fetch") + Count("xhr.send") <= 1
  /\ (pc \notin {"start", "inert"}) => Count("fetch") + Count("xhr.send") = 1
  /\ Called("xhr.send") => ~hasFetch
  /\ Called("fetch") => hasFetch

\* C9 (step part): after the result was delivered no request is pending
\* again, and the delivered response is not replaced.
C9_DeliveredOnce ==
  /\ (pc \notin {"start", "fetchPending", "xhrPending"}) =>
       pc' \notin {"fetchPending", "xhrPending"}
  /\ response # NoResponse => response' = response

\* C9: per page load one request is issued and its result is delivered once,
\* with no retry: XMLHttpRequest is used only when fetch does not exist, and
\* a failure of an existing fetch causes no XMLHttpRequest and no second
\* fetch.
C9_NoRetry == []C9_OneRequest /\ [][C9_DeliveredOnce]_vars

C9_Witness ==
  /\ Settled /\ hasFetch /\ Malformed
  /\ Count("fetch") = 1 /\ Count("xhr.send") = 0
  /\ Messages = <<CouldNotLoadMsg>>

\* C11: when #journal-preview-grid is absent at script start the feature is
\* inert: no request is issued, the placeholder is left unchanged, nothing
\* is reported and the pipeline never leaves Idle.
C11_InertWithoutGrid ==
  ~grid.present =>
    /\ calls = <<>>
    /\ path = <<"Idle">>
    /\ pc \in {"start", "inert"}
    /\ fallback.display = "" /\ fallback.innerHTML = StaticFallback
    /\ response = NoResponse /\ data = NoData

C11_Witness == pc = "inert" /\ ~grid.present /\ fallback.present

\* The five characters and the entity the specification gives each.
Special == {"&", "<", ">", "\"", "'"}

EntityOf(c) ==
  CASE c = "&"  -> <<"&", "a", "m", "p", ";">>
    [] c = "<"  -> <<"&", "l", "t", ";">>
    [] c = ">"  -> <<"&", "g", "t", ";">>
    [] c = "\"" -> <<"&", "q", "u", "o", "t", ";">>
    [] c = "'"  -> <<"&", "#", "3", "9", ";">>

StartsWith(s, prefix) ==
  Len(s) >= Len(prefix) /\ SubSeq(s, 1, Len(prefix)) = prefix

RECURSIVE Unescape(_)
\* Reads s from the left: an entity gives its character, a character that
\* is none of the five gives itself, a raw one of the five gives "#raw".
Unescape(s) ==
  IF s = <<>> THEN <<>>
  ELSE IF \E c \in Special : StartsWith(s, EntityOf(c))
    THEN LET c == CHOOSE x \in Special : StartsWith(s, EntityOf(x))
         IN <<c>> \o Unescape(SubSeq(s, Len(EntityOf(c)) + 1, Len(s)))
  ELSE IF Head(s) \in Special THEN <<"#raw">> \o Unescape(Tail(s))
  ELSE <<Head(s)>> \o Unescape(Tail(s))

RECURSIVE EntityCount(_)
\* The number of entities read from s.
EntityCount(s) ==
  IF s = <<>> THEN 0
  ELSE IF \E c \in Special : StartsWith(s, EntityOf(c))
    THEN LET c == CHOOSE x \in Special : StartsWith(s, EntityOf(x))
         IN 1 + EntityCount(SubSeq(s, Len(EntityOf(c)) + 1, Len(s)))
  ELSE EntityCount(Tail(s))

SpecialCount(s) == Cardinality({i \in 1..Len(s) : s[i] \in Special})

LacksField(entry) ==
  /\ entry # null
  /\ \/ entry.title = undefined \/ entry.excerpt = undefined
     \/ entry.category = undefined \/ entry.date = undefined
     \/ entry.url = undefined

\* C13: for a validated non-empty entries array, an entry that lacks a
\* required field (title, excerpt, category, date or url) causes no pipeline
\* failure: the pipeline reaches Done, showError is not called, and the
\* cards are rendered.
C13_MissingFieldRendered ==
  ( /\ Settled /\ ValidShape
    /\ \A i \in 1..Len(Items) : Items[i] # null
    /\ \E i \in 1..Len(Items) : LacksField(Items[i]) ) =>
    /\ Last(path) = "Done"
    /\ ~Called("showError")
    /\ Len(Cards) = Min(3, Len(Items))

\* A call of showError with the message m is the step taken.
ShowErrorCalled(m) == calls' = Append(calls, Call("showError", m))

\* C14 (step part): what one call of showError does.
C14_Call ==
  \A m \in ErrorMessages :
    ShowErrorCalled(m) =>
      /\ grid' = grid
      /\ ~fallback.present => fallback' = fallback
      /\ fallback.present =>
           /\ Unescape(fallback'.innerHTML.p) = m
           /\ fallback'.innerHTML.href = "journal.html"
           /\ fallback'.display = fallback.display
      /\ (calls # <<>> /\ Last(calls) = Call("showError", m)) =>
           fallback' = fallback

\* C14: showError is idempotent and total: a second call in sequence with
\* the same message leaves the placeholder and the container as the first
\* call left them, nothing accumulates, the container is never modified, and
\* without the placeholder element nothing changes.
C14_ShowErrorIdempotent == [][C14_Call]_vars

C14_Witness ==
  /\ pc = "showError" /\ Len(calls) = 2 /\ calls[1] = calls[2]
  /\ fallback.present
  /\ fallback.innerHTML = [p |-> NoEntriesMsg, href |-> "journal.html"]

\* s has the shape YYYY-MM-DD.
IsoShaped(s) ==
  /\ Len(s) = 10 /\ s[5] = "-" /\ s[8] = "-"
  /\ \A i \in {1, 2, 3, 4, 6, 7, 9, 10} : IsDigit(s[i])

TwoDigitVal(a, b) == 10 * DigitVal(a) + DigitVal(b)

IsoYear(s) ==
  1000 * DigitVal(s[1]) + 100 * DigitVal(s[2]) + TwoDigitVal(s[3], s[4])

\* The days of month m (1..12) of year y in the calendar.
MonthLength(y, m) ==
  CASE m \in {4, 6, 9, 11} -> 30
    [] m = 2 -> IF (y % 4 = 0 /\ y % 100 # 0) \/ y % 400 = 0 THEN 29 ELSE 28
    [] OTHER -> 31

\* s names a real calendar date.
RealDate(s) ==
  /\ IsoShaped(s)
  /\ TwoDigitVal(s[6], s[7]) \in 1..12
  /\ TwoDigitVal(s[9], s[10]) >= 1
  /\ TwoDigitVal(s[9], s[10]) <= MonthLength(IsoYear(s), TwoDigitVal(s[6], s[7]))

MonthAbbreviations ==
  <<"Jan", "Feb", "Mar", "Apr", "May", "Jun",
    "Jul", "Aug", "Sep", "Oct", "Nov", "Dec">>

\* Day without leading zero, month abbreviation, four-digit year.
Formatted(s) ==
  (IF s[9] = "0" THEN <<s[10]>> ELSE <<s[9], s[10]>>)
    \o <<" ", MonthAbbreviations[TwoDigitVal(s[6], s[7])], " ">>
    \o <<s[1], s[2], s[3], s[4]>>

\* The string has fewer than three '-'-separated parts, or one of the first
\* three does not start with a digit.
NotNumeric(s) ==
  LET parts == Split(s)
  IN Len(parts) < 3 \/ \E i \in 1..3 : parts[i] = <<>> \/ ~IsDigit(parts[i][1])

\* C15: for a string YYYY-MM-DD naming a real calendar date formatDate gives
\* the day without leading zero, the three-letter month and the four-digit
\* year, through Intl and through the month table alike ("2025-02-15" gives
\* "15 Feb 2025"); a string with fewer than 3 parts, or with parts that are
\* no numbers, comes back unchanged.
C15_FormatDate ==
  fnResult # NotCalled =>
    /\ RealDate(fnArg) => fnResult = Formatted(fnArg)
    /\ NotNumeric(fnArg) => fnResult = fnArg

\* ---------------------------------------------------------------------------
\* cookie-consent.js
\* ---------------------------------------------------------------------------

VAL_NECESSARY == "necessary"

VAL_ANALYTICS == "analytics"

\* localStorage: working, refusing setItem (quota, private browsing), or
\* throwing on every access (storage disabled).
StorageModes == {"ok", "full", "throws"}

\* CLARITY_ID: the empty string of the source, or the project ID its comment
\* tells the site owner to put there.
ClarityIds == {"", "abc123xyz"}

\* What localStorage.getItem returns under the key; "null" is the absent key.
Consents == {"null", VAL_NECESSARY, VAL_ANALYTICS}

getConsent(cfg, st) == IF cfg.storage = "throws" THEN "null" ELSE st

setConsent(cfg, st, value) == IF cfg.storage = "ok" THEN value ELSE st

\* localStorage.removeItem inside try/catch.
removeConsent(cfg, st) == IF cfg.storage = "throws" THEN st ELSE "null"

\* injectClarity after the storage holds st: the script element, and with it
\* the stored value of that moment.
injectClarity(cfg, st, cl) ==
  IF cfg.clarityId = "" THEN cl
  ELSE IF cl.injected THEN cl
  ELSE [injected |-> TRUE, storedThen |-> st]

createBanner == [stage |-> "pending", visible |-> FALSE, frame |-> FALSE, hiding |-> FALSE]

showBanner(banner) == [banner EXCEPT !.stage = "dom", !.frame = TRUE]

hideBanner(banner) == [banner EXCEPT !.visible = FALSE, !.hiding = TRUE]

BannerNames == {"init", "settings"}

\* document.getElementById('cookie-banner') finds a banner.
Existing == \E b \in BannerNames : banners[b].stage = "dom"

InitConsent ==
  /\ hasFetch = TRUE /\ hasIntl = TRUE
  /\ JournalOff /\ FnIdle /\ NavOff
  /\ consentCfg \in [clarityId : ClarityIds, settingsBtn : BOOLEAN, storage : StorageModes]
  /\ stored \in (IF consentCfg.storage = "throws" THEN {"null"} ELSE Consents)
  /\ consentPc = "loading"
  /\ banners = [init |-> NoBanner, settings |-> NoBanner, focus |-> "page"]
  /\ announced = ""
  /\ clarity = [injected |-> FALSE, storedThen |-> "null"]

ConsentRest == <<hasFetch, hasIntl, journalVars, fnVars, navVars, consentCfg>>

\* init, run at once or on DOMContentLoaded.
ConsentInit ==
  /\ consentPc = "loading"
  /\ consentPc' = "ready"
  /\ LET consent == getConsent(consentCfg, stored) IN
       /\ clarity' = IF consent = VAL_ANALYTICS
                     THEN injectClarity(consentCfg, stored, clarity) ELSE clarity
       /\ banners' = IF consent = "null"
                     THEN [banners EXCEPT !.init = createBanner] ELSE banners
  /\ UNCHANGED <<ConsentRest, stored, announced>>

\* The timer of init, 800 ms later: showBanner.
BannerTimeout ==
  /\ consentPc = "ready"
  /\ banners.init.stage = "pending"
  /\ banners' = [banners EXCEPT !.init = showBanner(@), !.focus = "init"]
  /\ UNCHANGED <<ConsentRest, stored, consentPc, announced, clarity>>

\* The second animation frame after showBanner.
BannerFrame(b) ==
  /\ banners[b].frame
  /\ banners' = [banners EXCEPT ![b].frame = FALSE, ![b].visible = TRUE]
  /\ UNCHANGED <<ConsentRest, stored, consentPc, announced, clarity>>

\* A click on #cookie-accept of a banner in the document.
AcceptClick(b) ==
  /\ banners[b].stage = "dom"
  /\ stored' = setConsent(consentCfg, stored, VAL_ANALYTICS)
  /\ clarity' = injectClarity(consentCfg, stored', clarity)
  /\ banners' = [banners EXCEPT ![b] = hideBanner(@)]
  /\ announced' = "Analytics cookies accepted."
  /\ UNCHANGED <<ConsentRest, consentPc>>

\* A click on #cookie-decline of a banner in the document.
DeclineClick(b) ==
  /\ banners[b].stage = "dom"
  /\ stored' = setConsent(consentCfg, stored, VAL_NECESSARY)
  /\ banners' = [banners EXCEPT ![b] = hideBanner(@)]
  /\ announced' = "Necessary cookies only - no analytics."
  /\ UNCHANGED <<ConsentRest, consentPc, clarity>>

\* transitionend on a banner that hideBanner listens on: the banner leaves the
\* document. The banner of init is gone for good; the settings button makes a
\* new one on its next click.
TransitionEnd(b) ==
  /\ banners[b].stage = "dom" /\ banners[b].hiding
  /\ banners' = [banners EXCEPT
                   ![b] = IF b = "init" THEN [NoBanner EXCEPT !.stage = "removed"]
                          ELSE NoBanner,
                   !.focus = IF @ = b THEN "page" ELSE @]
  /\ UNCHANGED <<ConsentRest, stored, consentPc, announced, clarity>>

\* A click on #cookie-settings-toggle.
SettingsClick ==
  /\ consentPc = "ready"
  /\ consentCfg.settingsBtn
  /\ stored' = removeConsent(consentCfg, stored)
  /\ banners' = IF Existing THEN banners
                ELSE [banners EXCEPT !.settings = showBanner(createBanner),
                                     !.focus = "settings"]
  /\ UNCHANGED <<ConsentRest, consentPc, announced, clarity>>

NextConsent ==
  \/ ConsentInit
  \/ BannerTimeout
  \/ \E b \in BannerNames : BannerFrame(b)
  \/ \E b \in BannerNames : AcceptClick(b)
  \/ \E b \in BannerNames : DeclineClick(b)
  \/ \E b \in BannerNames : TransitionEnd(b)
  \/ SettingsClick

SpecConsent == InitConsent /\ [][NextConsent]_vars

isOpen(d) == d.ariaExpanded = "true"

openNav(d, p) ==
  [d EXCEPT !.ariaExpanded = "true",
            !.isOpen = TRUE,
            !.overflow = "hidden",
            !.ariaLabel = "Close navigation menu",
            !.focus = IF p.firstLink THEN "firstLink" ELSE @]

MutCloseNav(d) ==
  [d EXCEPT !.ariaExpanded = "false",
            !.isOpen = FALSE,
            !.ariaLabel = "Open navigation menu"]
closeNav(d) ==
  [d EXCEPT !.ariaExpanded = "false",
            !.isOpen = FALSE,
            !.overflow = "",
            !.ariaLabel = "Open navigation menu"]

toggleNav(d, p) == IF isOpen(d) THEN closeNav(d) ELSE openNav(d, p)

\* The keydown listener of the document.
onKeydown(d, key) ==
  IF key = "Escape" /\ isOpen(d) THEN [closeNav(d) EXCEPT !.focus = "toggle"] ELSE d

\* What a click can land on: the toggle, a .site-nav__link, the nav outside its
\* links, or anything outside both.
Targets == {"toggle", "link", "nav", "outside"}

\* nav.contains(e.target)
NavContains(p, target) ==
  target \in {"link", "nav"} \/ (target = "toggle" /\ p.toggleInNav)

\* The click listener of the document.
MutOnDocumentClick(d, p, target) ==
  IF ~isOpen(d) THEN d
  ELSE IF NavContains(p, target) THEN d
  ELSE closeNav(d)
onDocumentClick(d, p, target) ==
  IF ~isOpen(d) THEN d
  ELSE IF NavContains(p, target) THEN d
  ELSE IF target = "toggle" THEN d
  ELSE closeNav(d)

\* The click listener of each .site-nav__link.
onLinkClick(d) == IF isOpen(d) THEN closeNav(d) ELSE d

handleBreakpoint(d, matches) == IF matches /\ isOpen(d) THEN closeNav(d) ELSE d

\* The listeners of the click's target, then, the click bubbling, that of the
\* document.
Dispatch(d, p, target) ==
  LET atTarget == CASE target = "toggle" -> toggleNav(d, p)
                    [] target = "link" -> onLinkClick(d)
                    [] OTHER -> d
  IN onDocumentClick(atTarget, p, target)

Keys == {"Escape", "Tab"}

\* matchMedia's list has addEventListener, or only the older addListener.
MqApis == {"addEventListener", "addListener"}

\* The markup: a closed nav. The nav has an 'a, button' when the toggle button
\* is inside it or when it has .site-nav__link anchors.
InitNav ==
  /\ hasFetch = TRUE /\ hasIntl = TRUE
  /\ JournalOff /\ FnIdle /\ ConsentOff
  /\ navPage \in [toggle : BOOLEAN, nav : BOOLEAN, toggleInNav : BOOLEAN,
                  firstLink : BOOLEAN, links : BOOLEAN, mqApi : MqApis,
                  pc : {"start"}]
  /\ (navPage.toggleInNav \/ navPage.links) => navPage.firstLink
  /\ navPage.toggleInNav => (navPage.toggle /\ navPage.nav)
  /\ navDom \in [ariaExpanded : {"null", "false"},
                 ariaLabel : {"Open navigation menu", "Menu"},
                 isOpen : {FALSE}, overflow : {""}, focus : {"body"}]
  /\ mqMatches \in BOOLEAN
  /\ navEvent = NoEvent

NavRest == <<hasFetch, hasIntl, journalVars, fnVars, consentVars>>

\* The script runs: the guard, then the listeners are attached.
NavBoot ==
  /\ navPage.pc = "start"
  /\ navPage' = [navPage EXCEPT !.pc = IF ~navPage.toggle \/ ~navPage.nav
                                       THEN "inert" ELSE "ready"]
  /\ UNCHANGED <<NavRest, navDom, mqMatches, navEvent>>

Click(target) ==
  /\ navPage.pc = "ready"
  /\ target = "link" => navPage.links
  /\ navDom' = Dispatch(navDom, navPage, target)
  /\ navEvent' = [name |-> target, wasOpen |-> isOpen(navDom)]
  /\ UNCHANGED <<NavRest, navPage, mqMatches>>

Keydown(key) ==
  /\ navPage.pc = "ready"
  /\ navDom' = onKeydown(navDom, key)
  /\ navEvent' = [name |-> key, wasOpen |-> isOpen(navDom)]
  /\ UNCHANGED <<NavRest, navPage, mqMatches>>

\* The viewport crosses 800px: the change event of the media query list.
BreakpointChange ==
  /\ navPage.pc = "ready"
  /\ mqMatches' = ~mqMatches
  /\ navDom' = handleBreakpoint(navDom, mqMatches')
  /\ navEvent' = [name |-> IF mqMatches' THEN "wide" ELSE "narrow",
                  wasOpen |-> isOpen(navDom)]
  /\ UNCHANGED <<NavRest, navPage>>

NextNav ==
  \/ NavBoot
  \/ \E target \in Targets : Click(target)
  \/ \E key \in Keys : Keydown(key)
  \/ BreakpointChange

SpecNav == InitNav /\ [][NextNav]_vars

\* The four pieces of nav state.
NavState == <<navDom.ariaExpanded, navDom.isOpen, navDom.overflow, navDom.ariaLabel>>

NavShown == navDom.ariaExpanded = "true" /\ navDom.isOpen

NavHidden == navDom.ariaExpanded # "true" /\ ~navDom.isOpen

\* The events that close an open nav.
Closers == {"Escape", "outside", "link", "wide"}

C17_Step ==
  (navPage.pc = "ready" /\ navPage'.pc = "ready") =>
    /\ navEvent'.name \in Closers =>
         IF NavShown THEN NavHidden' ELSE NavState' = NavState
    /\ navEvent'.name = "toggle" =>
         \/ NavShown /\ NavHidden'
         \/ NavHidden /\ NavShown'

\* C17: an open nav is closed by Escape, by a click outside the nav and the
\* toggle, by a click on a .site-nav__link and by the viewport becoming at
\* least 800px wide; a closed nav is left as it is by each of them; and a click
\* on the toggle flips the nav once, the document's click listener leaving the
\* flip alone.
C17_NavEvents == [][C17_Step]_vars

\* A click on a toggle outside the nav has opened the nav, and the document's
\* click listener has run on the open nav.
C17_Witness ==
  /\ navEvent = [name |-> "toggle", wasOpen |-> FALSE]
  /\ NavShown
  /\ ~navPage.toggleInNav

\* C18: aria-expanded is 'true' exactly when the nav has class is-open, exactly
\* when the body's overflow is 'hidden', exactly when the toggle's aria-label
\* is 'Close navigation menu'.
C18_PiecesAgree ==
  /\ (navDom.ariaExpanded = "true") <=> navDom.isOpen
  /\ navDom.isOpen <=> (navDom.overflow = "hidden")
  /\ (navDom.overflow = "hidden") <=> (navDom.ariaLabel = "Close navigation menu")

\* A nav that was open has been closed, and the body scrolls again.
C18_Witness ==
  /\ navEvent.wasOpen
  /\ navDom.ariaExpanded = "false"
  /\ navDom.overflow = ""

\* ---------------------------------------------------------------------------
\* Termination of the pipeline
\* ---------------------------------------------------------------------------

\* The steps of Then2. The callback is enabled whenever pc = "then2", and no
\* other action leaves that position, so weak fairness of these steps is weak
\* fairness of Then2.
Then2Runs == pc = "then2" /\ pc' \in {"settled", "catch"}

\* The script runs once loaded, and the event loop runs every callback whose
\* promise has settled. When the network answers, and when the body of a
\* response has been read, is up to the network: no fairness for FetchResolve,
\* FetchReject, JsonSettle, XhrOnload and XhrOnerror.
FairSpec ==
  /\ Init
  /\ [][Next]_vars
  /\ WF_vars(Boot)
  /\ WF_vars(Then1)
  /\ WF_pc(Then2Runs)
  /\ WF_vars(Catch)

\* The pipeline is in Done or in Failed.
Finished == Len(path) > 0 /\ Last(path) \in {"Done", "Failed"}

\* The promise of fetch has settled, or the XMLHttpRequest has fired load or
\* error.
TransportCompleted ==
  grid.present /\ pc \in {"then1", "json", "then2", "catch", "settled"}

\* C19 as stated: once the promise of fetch has settled, or the XMLHttpRequest
\* has fired load or error, the pipeline reaches Done or Failed and stays
\* there.
C19_TransportCompletes ==
  /\ TransportCompleted ~> Finished
  /\ [][Finished => Finished']_vars

\* The promise of fetch has rejected, or fulfilled with a response that is not
\* ok, or the promise of response.json() has settled, or the XMLHttpRequest
\* has fired load or error.
BodyDelivered ==
  /\ grid.present
  /\ \/ pc \in {"then2", "catch", "settled"}
     \/ pc = "then1" /\ ~In2xx(response.status)

\* C19, amended: once the promise of fetch has rejected or fulfilled with a
\* response that is not ok, or the promise of response.json() has settled, or
\* the XMLHttpRequest has fired load or error, the pipeline reaches Done or
\* Failed and stays there; until then it may stay in Fetching or in Decoding.
C19_BodyDelivered ==
  /\ BodyDelivered ~> Finished
  /\ [][Finished => Finished']_vars

\* The pipeline went over fetch through Decoding and finished.
C19_Witness ==
  /\ hasFetch /\ grid.present
  /\ Finished
  /\ \E i \in 1..Len(path) : path[i] = "Decoding"

====
